---------------------------- MODULE Spec2Model ----------------------------
(***************************************************************************)
(* A model of the runpod-comfy-flux-ip repository:                         *)
(*   - src/handler.py: the serverless worker (dispatcher, process          *)
(*     supervisor, HTTP facade, output watcher, action handlers);          *)
(*   - src/flux_double_stream_patch.py: the DoubleStreamBlock.forward      *)
(*     compatibility patch (targeted patch, bulk patch, import hook).      *)
(* Spec is the worker, SpecPatch the patch module.                         *)
(***************************************************************************)
EXTENDS Integers, Sequences, FiniteSets, TLC

(***************************************************************************)
(* Bounds of the model.  Time is counted in ticks of one sleep of a        *)
(* polling loop; the timeouts are the code's defaults scaled to ticks.     *)
(***************************************************************************)
MaxClock == 3
ReadyTimeout == 1
WaitBudget == 1
MaxSpawns == 2
MaxPathLen == 2

(***************************************************************************)
(* Paths are sequences of components below the filesystem root.            *)
(***************************************************************************)
INPUT_DIR == <<"runpod-volume", "ComfyUI", "input">>

\* The caller-supplied payload.filename values: [abs, parts].
FileNames ==
  { [abs |-> FALSE, parts |-> <<"ref.png">>],
    [abs |-> FALSE, parts |-> <<"sub", "ref.png">>],
    [abs |-> FALSE, parts |-> <<"sub", "..", "ref.png">>],
    [abs |-> FALSE, parts |-> <<"..", "..", "etc", "passwd">>],
    [abs |-> TRUE,  parts |-> <<"etc", "passwd">>] }

DefaultFileName == [abs |-> FALSE, parts |-> <<"input.png">>]

\* pathlib's `/`: an absolute right operand replaces the left one.
PathJoin(base, f) == IF f.abs THEN f.parts ELSE base \o f.parts

\* What the operating system resolves a path to: ".." pops a component
\* (the root is its own parent).
RECURSIVE ResolveFrom(_, _)
ResolveFrom(acc, rest) ==
  IF rest = <<>> THEN acc
  ELSE IF Head(rest) = ".."
       THEN ResolveFrom(IF acc = <<>> THEN acc ELSE SubSeq(acc, 1, Len(acc) - 1),
                        Tail(rest))
       ELSE ResolveFrom(Append(acc, Head(rest)), Tail(rest))

Resolve(p) == ResolveFrom(<<>>, p)

IsInside(root, p) ==
  /\ Len(p) > Len(root)
  /\ SubSeq(p, 1, Len(root)) = root

(***************************************************************************)
(* Job events.  shape is what `event` and event["input"] are; action and   *)
(* payload are read from the input object.                                 *)
(***************************************************************************)
NoName == [abs |-> FALSE, parts |-> <<>>]

NoFields ==
  [url |-> "missing", filename |-> NoName, lines |-> "missing",
   path |-> "missing", prompt_id |-> "missing", workflow |-> "missing"]

ImplementedActions ==
  {"ping", "about", "preflight", "upload_input_url", "dump_comfy_log",
   "comfy_get", "history", "list_outputs", "list_all_outputs",
   "debug_ip_paths", "generate"}

\* "None" is a missing action; the others are strings the dispatcher does
\* not compare against.
OtherActions == {"None", "PING", "does_not_exist"}

\* payload.workflow: a well-formed job graph, and one whose node "7" has a
\* class_type and no inputs.  The handler reads neither.
Workflows == {"graph", "graph_node_7_without_inputs"}

\* The payload objects of each action.
PayloadFields(a) ==
  CASE a = "upload_input_url" ->
         { [NoFields EXCEPT !.url = "http://img", !.filename = f] :
             f \in FileNames \cup {NoName} } \cup { NoFields }
    [] a = "dump_comfy_log" ->
         { [NoFields EXCEPT !.lines = l] : l \in {"missing", "10", "abc"} }
    [] a = "comfy_get" ->
         { [NoFields EXCEPT !.path = q] : q \in {"missing", "/object_info"} }
    [] a = "history" ->
         { [NoFields EXCEPT !.prompt_id = q] : q \in {"missing", "p1"} }
    [] a = "generate" ->
         { [NoFields EXCEPT !.workflow = w] : w \in Workflows \cup {"missing"} }
    [] a = "does_not_exist" -> { NoFields }
    [] OTHER -> {}

\* The actions given a payload that is no object (a string).
WithStringPayload ==
  {"upload_input_url", "dump_comfy_log", "comfy_get", "history", "generate"}

Events ==
  { [shape |-> s, action |-> "None", payload |-> "missing", fields |-> NoFields] :
      s \in {"null", "no_input", "input_falsy", "input_str"} }
  \cup
  { [shape |-> "obj", action |-> a, payload |-> "missing", fields |-> NoFields] :
      a \in ImplementedActions \cup OtherActions }
  \cup
  { [shape |-> "obj", action |-> a, payload |-> "str", fields |-> NoFields] :
      a \in WithStringPayload }
  \cup
  UNION { { [shape |-> "obj", action |-> a, payload |-> "obj", fields |-> f] :
              f \in PayloadFields(a) } : a \in ImplementedActions \cup OtherActions }

(***************************************************************************)
(* The worker's state.                                                     *)
(***************************************************************************)
VARIABLES
  pc,             \* where the one invocation in progress stands
  event,          \* the job event of the latest invocation
  result,         \* what the latest invocation gave the platform
  fx,             \* side effects of the latest invocation
  comfy_process,  \* _comfy_process: 0 is None, else the pid held
  alive,          \* pids of spawned processes that have not exited
  spawned,        \* processes spawned so far (the next pid is spawned + 1)
  healthy,        \* GET /system_stats answers 2xx
  clock,          \* time.time(), in ticks
  started,        \* `start` of _wait_for_comfy_ready, `deadline` of _await_new_outputs
  files,          \* PNG files of the output directories: path -> mtime
  before_map,     \* _handle_generate's snapshot
  prompt          \* prompt_id of the submission, "none" before it
\* started, before_map and prompt are locals of the running handler: they
\* hold their initial values whenever no call that owns them is in progress.

worker_vars ==
  <<pc, event, result, fx, comfy_process, alive, spawned, healthy, clock,
    started, files, before_map, prompt>>

\* The state of the patch module (flux_double_stream_patch.py).
VARIABLES
  sys_modules,   \* names of the loaded modules
  forward,       \* class -> stack of wrappers around its forward
  meta_path,     \* instances of _FluxImportHook on sys.meta_path
  LOGGED_ONCE,   \* the module's global flag
  last           \* the latest operation of the patch module and its outcome

patch_vars == <<sys_modules, forward, meta_path, LOGGED_ONCE, last>>

\* One call of the wrapper, taken on its own.
VARIABLES
  w_sig,      \* what inspect.signature gave _patch_module
  w_args,     \* *args of the call
  w_kwargs,   \* **kwargs of the call
  w_out       \* what the call returned, NoOut before it

wrapper_vars == <<w_sig, w_args, w_kwargs, w_out>>

\* One computation of the new images of _await_new_outputs, taken on its own.
VARIABLES
  d_before,   \* `before`: path -> mtime
  d_scan,     \* the files a later scan finds: path -> mtime
  d_new       \* new_images, NotRun before the computation

diff_vars == <<d_before, d_scan, d_new>>

\* One interpreter start as sitecustomize.py sees it.
VARIABLES
  l_pc,         \* "paths", "import", "done", or "aborted" when an exception escapes
  sys_path,     \* sys.path
  dir_exists,   \* CUSTOM_NODE_DIR.exists()
  imports,      \* calls of importlib.import_module("flux_double_stream_patch")
  import_exc    \* what the import raised, "none" when it did not (or not yet)

loader_vars == <<l_pc, sys_path, dir_exists, imports, import_exc>>

\* Two generate invocations against one inference server and one set of
\* output directories.
VARIABLES
  r_pc,        \* invocation -> "snapshot", "submit", "await" or "done"
  r_before,    \* invocation -> its before_map
  r_deadline,  \* invocation -> `deadline` of its _await_new_outputs
  r_result,    \* invocation -> what it returned, NoResult before
  r_queue,     \* submissions the server accepted and has not executed yet
  r_files,     \* PNG files: path -> mtime and the submission that wrote it
  r_clock      \* time.time(), in ticks

race_vars == <<r_pc, r_before, r_deadline, r_result, r_queue, r_files, r_clock>>

vars ==
  <<worker_vars, patch_vars, wrapper_vars, diff_vars, loader_vars, race_vars>>

\* What a step of the worker, of the patch module, of the wrapper, of the
\* diff, of the loader and of the two invocations leaves alone.
NotWorker == <<patch_vars, wrapper_vars, diff_vars, loader_vars, race_vars>>

NotPatch == <<worker_vars, wrapper_vars, diff_vars, loader_vars, race_vars>>

NotWrapper == <<worker_vars, patch_vars, diff_vars, loader_vars, race_vars>>

NotDiff == <<worker_vars, patch_vars, wrapper_vars, loader_vars, race_vars>>

NotLoader == <<worker_vars, patch_vars, wrapper_vars, diff_vars, race_vars>>

NotRace == <<worker_vars, patch_vars, wrapper_vars, diff_vars, loader_vars>>

OutPaths == {"out/a.png"}

\* Nothing spawned, probed, requested, created, written or scanned.
NoFx ==
  [spawns |-> 0, probes |-> 0, http |-> <<>>, mkdirs |-> {}, writes |-> {},
   scans |-> 0]

NoEnv == [none |-> TRUE]

NoResult == [kind |-> "none", env |-> NoEnv, why |-> "none"]

\* _ok and _fail.  A message f"{text}: {detail}" is kept as its two parts.
ok(data) == [ok |-> TRUE, data |-> data]

\* _fail with the flag of _ok.
fail_reports_ok(text, detail) ==
  [ok |-> TRUE, error |-> [text |-> text, detail |-> detail]]

fail(text, detail) == [ok |-> FALSE, error |-> [text |-> text, detail |-> detail]]

Returned(env, why) == [kind |-> "returned", env |-> env, why |-> why]

Raised(exc) == [kind |-> "raised", env |-> NoEnv, why |-> exc]

EmptyMap == [p \in {} |-> 0]

WorkerInit ==
  /\ pc = "idle"
  /\ event = [shape |-> "null", action |-> "None", payload |-> "missing",
              fields |-> NoFields]
  /\ result = NoResult
  /\ fx = NoFx
  /\ comfy_process = 0
  /\ alive = {}
  /\ spawned = 0
  /\ healthy \in BOOLEAN
  /\ clock = 0
  /\ started = 0
  /\ files = EmptyMap
  /\ before_map = EmptyMap
  /\ prompt = "none"

(***************************************************************************)
(* handler: lines 622-659.                                                 *)
(***************************************************************************)
\* inp = (event or {}).get("input") or {}: a truthy input that is no dict
\* has no .get, and the lookup is outside the try.
InputRaises(e) == e.shape = "input_str"

\* action = inp.get("action")
ActionOf(e) == IF e.shape = "obj" THEN e.action ELSE "None"

\* body = {"payload": payload} if isinstance(payload, dict) else {}, and the
\* handlers' payload = body.get("payload") or {}
PayloadOf(e) ==
  IF e.shape = "obj" /\ e.payload = "obj" THEN e.fields ELSE NoFields

NeedsComfy == {"preflight", "comfy_get", "history", "generate"}

\* The message each handler's own except clause gives an exception of
\* _ensure_comfy_ready.
ReadyFailText(a) ==
  CASE a = "preflight" -> "preflight failed"
    [] a = "comfy_get" -> "comfy_get failed"
    [] a = "history"   -> "history error"
    [] OTHER           -> "generate preflight failed"

handle_ping == Returned(ok([message |-> "pong"]), "success")

handle_about ==
  Returned(ok([service |-> "runpod-comfy-flux-ip", version |-> "v13"]), "success")

handle_debug_ip_paths ==
  Returned(ok([LoadFluxIPAdapter |-> "fields"]), "success")

\* int("abc") raises inside the handler; the dispatcher's except catches it.
handle_dump_comfy_log(payload, logExists) ==
  IF payload.lines = "abc"
  THEN Returned(fail("unhandled exception", "ValueError"), "exception")
  ELSE Returned(ok([log_tail |-> IF logExists THEN "tail" ELSE "(log file not found)",
                    path |-> "/tmp/comfy.log"]), "success")

handle_list_outputs(fs) ==
  Returned(ok([images |-> fs, path |-> "out"]), "success")

handle_list_all_outputs(fs) ==
  Returned(ok([images |-> fs, scan_dirs |-> "OUTPUT_SCAN_DIRS"]), "success")

\* payload.get("filename") or "input.png"
FileNameOf(payload) ==
  IF payload.filename = NoName THEN DefaultFileName ELSE payload.filename

\* dest = pathlib.Path(INPUT_DIR) / filename
UploadDest(payload) == PathJoin(INPUT_DIR, FileNameOf(payload))

Parent(p) == SubSeq(p, 1, Len(p) - 1)

\* _handle_upload_input_url.  outcome is what the filesystem and the remote
\* host do: "mkdir_failed", "download_failed", "write_failed" or "saved".
handle_upload_input_url(payload, outcome) ==
  IF payload.url = "missing"
  THEN Returned(fail("upload_input_url requires payload.url", ""), "invalid_input")
  ELSE CASE outcome = "mkdir_failed" ->
              Returned(fail("unhandled exception", "OSError"), "exception")
         [] outcome = "saved" ->
              Returned(ok([saved |-> UploadDest(payload)]), "success")
         [] OTHER ->
              Returned(fail("upload_input_url failed", outcome), "exception")

\* The directories and files _handle_upload_input_url creates.
UploadMkdirs(payload, outcome) ==
  IF payload.url = "missing" \/ outcome = "mkdir_failed" THEN {}
  ELSE { Resolve(Parent(UploadDest(payload))) }

UploadWrites(payload, outcome) ==
  IF payload.url # "missing" /\ outcome = "saved"
  THEN { Resolve(UploadDest(payload)) } ELSE {}

\* A dispatcher whose fall-through names no action.
UnknownAction_unnamed(a) == Returned(fail("unknown action", ""), "unknown_action")

UnknownAction(a) == Returned(fail("unknown action", a), "unknown_action")

\* Handlers that ask for the server whatever the payload holds.
MissingField_never(a, payload) == FALSE

\* The handlers that read their payload before they need the server.
MissingField(a, payload) ==
  CASE a = "comfy_get" -> payload.path = "missing"
    [] a = "history"   -> payload.prompt_id = "missing"
    [] a = "generate"  -> payload.workflow = "missing"
    [] OTHER           -> FALSE

MissingFieldText(a) ==
  CASE a = "comfy_get" -> "comfy_get requires payload.path"
    [] a = "history"   -> "history requires payload.prompt_id"
    [] OTHER           -> "generate requires payload.workflow"

\* The invocations that end in the call of handler itself.
Immediate(e, fs, logExists, outcome) ==
  LET a == ActionOf(e)
      payload == PayloadOf(e)
  IN  CASE InputRaises(e)          -> Raised("AttributeError")
        [] a = "ping"              -> handle_ping
        [] a = "about"             -> handle_about
        [] a = "upload_input_url"  -> handle_upload_input_url(payload, outcome)
        [] a = "dump_comfy_log"    -> handle_dump_comfy_log(payload, logExists)
        [] a = "list_outputs"      -> handle_list_outputs(fs)
        [] a = "list_all_outputs"  -> handle_list_all_outputs(fs)
        [] a = "debug_ip_paths"    -> handle_debug_ip_paths
        [] a \in NeedsComfy        ->
             Returned(fail(MissingFieldText(a), ""), "invalid_input")
        [] OTHER                   -> UnknownAction(a)

EntersComfy(e) ==
  /\ ~InputRaises(e)
  /\ ActionOf(e) \in NeedsComfy
  /\ ~MissingField(ActionOf(e), PayloadOf(e))

\* Whether COMFY_LOG_PATH exists: Popen's log file is opened in append mode,
\* so it does once a process was spawned; only dump_comfy_log reads it.
LogStates(e) ==
  IF ActionOf(e) = "dump_comfy_log" /\ spawned = 0 THEN BOOLEAN ELSE {TRUE}

\* What the filesystem and the remote host do to an upload.
UploadOutcomes(e) ==
  IF ActionOf(e) = "upload_input_url" /\ PayloadOf(e).url # "missing"
  THEN {"mkdir_failed", "download_failed", "write_failed", "saved"}
  ELSE {"saved"}

\* The side effects of an invocation that ends in the call of handler.
ImmediateFx(e, outcome) ==
  IF InputRaises(e) THEN NoFx
  ELSE IF ActionOf(e) = "upload_input_url"
  THEN [NoFx EXCEPT
          !.mkdirs = UploadMkdirs(PayloadOf(e), outcome),
          !.writes = UploadWrites(PayloadOf(e), outcome),
          !.http = IF PayloadOf(e).url = "missing" \/ outcome = "mkdir_failed"
                   THEN <<>> ELSE <<"GET url">>]
  ELSE IF ActionOf(e) = "list_all_outputs"
  THEN [NoFx EXCEPT !.scans = 1]
  ELSE NoFx

\* handler(event), up to its return or to its call of _ensure_comfy_ready.
Invoke(e) ==
  /\ UNCHANGED NotWorker
  /\ pc = "idle"
  /\ event' = e
  /\ before_map' = EmptyMap
  /\ prompt' = "none"
  /\ started' = 0
  /\ UNCHANGED <<comfy_process, alive, spawned, healthy, clock, files>>
  /\ IF EntersComfy(e)
     THEN /\ pc' = "ensure_start"
          /\ result' = NoResult
          /\ fx' = NoFx
     ELSE \E logExists \in LogStates(e), outcome \in UploadOutcomes(e) :
            /\ pc' = "idle"
            /\ result' = Immediate(e, files, logExists, outcome)
            /\ fx' = ImmediateFx(e, outcome)

(***************************************************************************)
(* Process supervisor: lines 73-135.                                       *)
(***************************************************************************)
\* _comfy_process is not None and _comfy_process.poll() is None
HoldsLiveProcess == comfy_process # 0 /\ comfy_process \in alive

\* A supervisor that starts a server for every invocation that needs one.
MustSpawn_always == TRUE

\* Whether _start_comfy_if_needed goes on to subprocess.Popen.
MustSpawn == ~HoldsLiveProcess

\* An exception inside a handler's try around _ensure_comfy_ready.
ReadyFailed(detail) ==
  Returned(fail(ReadyFailText(ActionOf(event)), detail), "unreachable")

\* _start_comfy_if_needed, the first half of _ensure_comfy_ready.
StartComfyIfNeeded ==
  /\ UNCHANGED NotWorker
  /\ pc = "ensure_start"
  /\ UNCHANGED <<event, healthy, clock, files, before_map, prompt>>
  /\ IF ~MustSpawn
     THEN /\ pc' = "wait_ready"
          /\ started' = clock
          /\ UNCHANGED <<result, fx, comfy_process, alive, spawned>>
     ELSE \/ /\ spawned < MaxSpawns
             /\ comfy_process' = spawned + 1
             /\ alive' = alive \cup {spawned + 1}
             /\ spawned' = spawned + 1
             /\ fx' = [fx EXCEPT !.spawns = @ + 1]
             /\ pc' = "wait_ready"
             /\ started' = clock
             /\ UNCHANGED result
          \/ \* Popen (or opening the log) raises
             /\ pc' = "idle"
             /\ result' = ReadyFailed("OSError")
             /\ started' = 0
             /\ UNCHANGED <<fx, comfy_process, alive, spawned>>

\* A generate that submits before it has looked at the outputs.
AfterReady_without_snapshot(a) == IF a = "generate" THEN "submit" ELSE "request"

\* What a handler does once _ensure_comfy_ready has returned.
AfterReady(a) == IF a = "generate" THEN "snapshot" ELSE "request"

\* A readiness wait that never gives up.
TimedOut_never == FALSE

\* time.time() - start > timeout
TimedOut == clock - started > ReadyTimeout

\* One iteration of the loop of _wait_for_comfy_ready: the probe, the
\* timeout test and the sleep.
WaitForComfyReady ==
  /\ UNCHANGED NotWorker
  /\ pc = "wait_ready"
  /\ UNCHANGED <<event, comfy_process, alive, spawned, healthy, files,
                 before_map, prompt>>
  /\ fx' = [fx EXCEPT !.probes = @ + 1]
  /\ IF healthy
     THEN /\ pc' = AfterReady(ActionOf(event))
          /\ started' = 0
          /\ UNCHANGED <<result, clock>>
     ELSE IF TimedOut
     THEN /\ pc' = "idle"
          /\ result' = ReadyFailed("Timed out waiting for ComfyUI")
          /\ started' = 0
          /\ UNCHANGED clock
     ELSE /\ clock < MaxClock
          /\ clock' = clock + 1
          /\ UNCHANGED <<pc, result, started>>

(***************************************************************************)
(* HTTP facade and the handlers that use it.  A response is 2xx with a     *)
(* JSON body, 2xx with another body, not 2xx, or no response at all (the   *)
(* request raises).                                                        *)
(***************************************************************************)
Responses == {"ok_json", "ok_text", "non2xx", "conn_error"}

\* _handle_preflight after _ensure_comfy_ready: raise_for_status and json()
\* both raise into the handler's except.
preflight_result(r) ==
  IF r = "ok_json" THEN Returned(ok([system_stats |-> "stats"]), "success")
  ELSE Returned(fail("preflight failed", r),
                IF r = "non2xx" THEN "non2xx" ELSE "exception")

\* _handle_comfy_get after _ensure_comfy_ready: only the request itself can
\* raise; the status is passed through.
comfy_get_result(r) ==
  IF r = "conn_error" THEN Returned(fail("comfy_get failed", r), "exception")
  ELSE Returned(ok([path |-> "/object_info", status |-> r,
                    body |-> IF r = "ok_json" THEN "parsed" ELSE "text"]),
                IF r = "non2xx" THEN "non2xx" ELSE "success")

\* _handle_history after _ensure_comfy_ready: r1 answers GET /history/{id},
\* r2 the legacy POST /history.
HistoryFallsBack(r1) == r1 \in {"non2xx", "conn_error"}

history_result(r1, r2) ==
  CASE r1 = "ok_json" ->
         Returned(ok([prompt_id |-> "p1", history |-> "data", raw |-> "none"]), "success")
    [] r1 = "ok_text" ->
         Returned(ok([prompt_id |-> "p1", history |-> "None", raw |-> "GET text"]), "success")
    [] r2 = "conn_error" ->
         Returned(fail("history error", r2), "exception")
    [] r2 = "non2xx" ->
         Returned(fail("history POST failed", r2), "non2xx")
    [] r2 = "ok_json" ->
         Returned(ok([prompt_id |-> "p1", history |-> "data", raw |-> "none"]), "success")
    [] OTHER ->
         Returned(ok([prompt_id |-> "p1", history |-> "None", raw |-> "POST text"]), "success")

\* The request step of preflight, comfy_get and history.
Request ==
  /\ UNCHANGED NotWorker
  /\ pc = "request"
  /\ pc' = "idle"
  /\ UNCHANGED <<event, comfy_process, alive, spawned, healthy, clock, started,
                 files, before_map, prompt>>
  /\ LET a == ActionOf(event) IN
     \E r1 \in Responses, r2 \in Responses :
       CASE a = "preflight" ->
              /\ r1 = r2
              /\ (r1 \in {"ok_json", "ok_text"}) = healthy
              /\ result' = preflight_result(r1)
              /\ fx' = [fx EXCEPT !.http = Append(@, "GET /system_stats")]
         [] a = "comfy_get" ->
              /\ r1 = r2
              /\ result' = comfy_get_result(r1)
              /\ fx' = [fx EXCEPT !.http = Append(@, "GET path")]
         [] OTHER ->
              /\ (~HistoryFallsBack(r1)) => r1 = r2
              /\ result' = history_result(r1, r2)
              /\ fx' = [fx EXCEPT !.http =
                          IF HistoryFallsBack(r1)
                          THEN @ \o <<"GET /history/id", "POST /history">>
                          ELSE Append(@, "GET /history/id")]

(***************************************************************************)
(* Output scanner and _handle_generate: lines 173-234 and 528-603.         *)
(***************************************************************************)
\* _scan_outputs: a descriptor for every PNG file.
scan_outputs(fs) == { [path |-> p, mtime |-> fs[p]] : p \in DOMAIN fs }

\* A diff that only knows new paths.
NewImages_new_paths_only(before, images) ==
  { d \in images : d.path \notin DOMAIN before }

\* {img["path"]: img["mtime"] for img in images}
PathMap(images) ==
  [p \in { d.path : d \in images } |->
     (CHOOSE d \in images : d.path = p).mtime]

\* new_images of _await_new_outputs
NewImages(before, images) ==
  { d \in images : d.path \notin DOMAIN before \/ d.mtime > before[d.path] }

NoImage == [path |-> "None", mtime |-> 0]

\* sorted(new_images, key=mtime)[-1]: some image of the greatest mtime.
Latest(new) == { d \in new : \A o \in new : o.mtime <= d.mtime }

\* The envelope _handle_generate ends with, with or without new images.
generate_result(pid, before, after, new, latest) ==
  Returned(ok([prompt_id |-> pid,
               wait_info |-> [before_count |-> Cardinality(DOMAIN before),
                              after_count |-> Cardinality(DOMAIN after)],
               new_images |-> new,
               latest_image |-> latest]),
           IF new = {} THEN "timeout" ELSE "success")

\* before_images = _scan_outputs(); before_map = {...}
Snapshot ==
  /\ UNCHANGED NotWorker
  /\ pc = "snapshot"
  /\ pc' = "submit"
  /\ before_map' = PathMap(scan_outputs(files))
  /\ fx' = [fx EXCEPT !.scans = @ + 1]
  /\ UNCHANGED <<event, result, comfy_process, alive, spawned, healthy, clock,
                 started, files, prompt>>

\* wait_seconds of the payload, in ticks (40 s when the payload has none);
\* 0 is a budget that has run out by the first scan.
WaitBudgets == 0..WaitBudget

\* The try block around _comfy_post("/prompt"), and the deadline
\* _await_new_outputs computes on entry.
Submit ==
  /\ UNCHANGED NotWorker
  /\ pc = "submit"
  /\ UNCHANGED <<event, comfy_process, alive, spawned, healthy, clock, files>>
  /\ fx' = [fx EXCEPT !.http = Append(@, "POST /prompt")]
  /\ \E r \in Responses :
       IF r = "ok_json"
       THEN /\ pc' = "await"
            /\ prompt' = "p1"
            /\ \E wait_seconds \in WaitBudgets : started' = clock + wait_seconds
            /\ UNCHANGED <<result, before_map>>
       ELSE /\ pc' = "idle"
            /\ result' = Returned(fail("generate failed", r),
                                  IF r = "non2xx" THEN "non2xx" ELSE "exception")
            /\ before_map' = EmptyMap
            /\ UNCHANGED <<prompt, started>>

\* A watcher that gives up at its first empty scan.
DeadlineReached_at_once == TRUE

\* time.time() >= deadline
DeadlineReached == clock >= started

\* One iteration of the loop of _await_new_outputs, and the rest of
\* _handle_generate once it returns.
AwaitNewOutputs ==
  /\ UNCHANGED NotWorker
  /\ pc = "await"
  /\ UNCHANGED <<event, comfy_process, alive, spawned, healthy, files>>
  /\ fx' = [fx EXCEPT !.scans = @ + 1]
  /\ LET all_images == scan_outputs(files)
         current_map == PathMap(all_images)
         new == NewImages(before_map, all_images)
     IN  IF new # {}
         THEN /\ pc' = "idle"
              /\ \E latest \in Latest(new) :
                   result' = generate_result(prompt, before_map, current_map, new, latest)
              /\ before_map' = EmptyMap
              /\ prompt' = "none"
              /\ started' = 0
              /\ UNCHANGED clock
         ELSE IF DeadlineReached
         THEN /\ pc' = "idle"
              /\ result' = generate_result(prompt, before_map, current_map, {}, NoImage)
              /\ before_map' = EmptyMap
              /\ prompt' = "none"
              /\ started' = 0
              /\ UNCHANGED clock
         ELSE /\ clock < MaxClock
              /\ clock' = clock + 1
              /\ UNCHANGED <<pc, result, before_map, prompt, started>>

(***************************************************************************)
(* The environment: the inference server, its process, its output files    *)
(* and the passing of time.  Time and the output directories are followed  *)
(* while an invocation is in progress; what happens between two            *)
(* invocations is what the next one meets at its first step.               *)
(***************************************************************************)
ServerUp ==
  /\ UNCHANGED NotWorker
  /\ ~healthy
  /\ healthy' = TRUE
  /\ UNCHANGED <<pc, event, result, fx, comfy_process, alive, spawned, clock,
                 started, files, before_map, prompt>>

ServerDown ==
  /\ UNCHANGED NotWorker
  /\ healthy
  /\ healthy' = FALSE
  /\ UNCHANGED <<pc, event, result, fx, comfy_process, alive, spawned, clock,
                 started, files, before_map, prompt>>

ProcessExits ==
  /\ UNCHANGED NotWorker
  /\ \E p \in alive :
       /\ alive' = alive \ {p}
       /\ UNCHANGED <<pc, event, result, fx, comfy_process, spawned, healthy, clock,
                      started, files, before_map, prompt>>

\* The inference server writes (or rewrites) an output file.
OutputWritten ==
  /\ UNCHANGED NotWorker
  /\ \E p \in OutPaths :
       /\ pc # "idle"
       /\ files' = [q \in DOMAIN files \cup {p} |-> IF q = p THEN clock ELSE files[q]]
       /\ UNCHANGED <<pc, event, result, fx, comfy_process, alive, spawned, healthy,
                      clock, started, before_map, prompt>>

Tick ==
  /\ UNCHANGED NotWorker
  /\ pc # "idle"
  /\ clock < MaxClock
  /\ clock' = clock + 1
  /\ UNCHANGED <<pc, event, result, fx, comfy_process, alive, spawned, healthy,
                 started, files, before_map, prompt>>

WorkerNext ==
  \/ \E e \in Events : Invoke(e)
  \/ StartComfyIfNeeded
  \/ WaitForComfyReady
  \/ Request
  \/ Snapshot
  \/ Submit
  \/ AwaitNewOutputs
  \/ ServerUp
  \/ ServerDown
  \/ ProcessExits
  \/ OutputWritten
  \/ Tick

(***************************************************************************)
(* flux_double_stream_patch.py.  Keyword arguments are maps from key to    *)
(* value; a signature is what _patch_module reads from inspect.signature.  *)
(***************************************************************************)
Keys == {"img", "mask", "attn_mask", "attention_mask", "transformer_options"}

Values == {"v1", "v2"}

\* Every keyword map of a call.
KwargMaps == UNION { [S -> Values] : S \in SUBSET Keys }

Restrict(kwargs, S) == [k \in DOMAIN kwargs \cap S |-> kwargs[k]]

Without(kwargs, S) == [k \in DOMAIN kwargs \ S |-> kwargs[k]]

\* A wrapper that passes every keyword on.
DropUnaccepted_keeps_all(allowed_kwargs, kwargs) == kwargs

\* Lines 83-86: a forward without **kwargs gets the keywords it declares.
DropUnaccepted(allowed_kwargs, kwargs) == Restrict(kwargs, allowed_kwargs)

\* Lines 87-95: a forward with **kwargs loses the known problematic extras.
DenyList == {"attn_mask", "attention_mask", "transformer_options"}

\* A wrapper that trusts **kwargs.
DropDenyList_keeps_all(kwargs) == kwargs

DropDenyList(kwargs) == Without(kwargs, DenyList)

\* Lines 96-99: the mask keys go even when the forward declares them.
StripMasks(kwargs) == Without(kwargs, {"attn_mask", "attention_mask"})

\* What original_forward(self, *args, **kwargs) returns for what it is given.
original_forward(args, kwargs) ==
  [by |-> "original_forward", args |-> args, kwargs |-> kwargs]

\* The keywords patched_forward passes on.
FilteredKwargs(sig, kwargs) ==
  StripMasks(IF ~sig.has_var_kw
             THEN DropUnaccepted(sig.allowed_kwargs, kwargs)
             ELSE DropDenyList(kwargs))

\* patched_forward: one wrapper around a forward of signature sig.
patched_forward(sig, args, kwargs) ==
  original_forward(args, FilteredKwargs(sig, kwargs))

(***************************************************************************)
(* Modules and block classes.  A class's forward is the stack of wrappers  *)
(* around its original function, innermost first: each wrapper is the      *)
(* signature it captured.                                                  *)
(***************************************************************************)
CANONICAL == "comfy.ldm.flux.model"

\* Always loaded: a module without the class, and one whose class has no
\* forward.
Preloaded == {"torch", "bare.flux.model"}

Importable ==
  {CANONICAL, "alias.flux.model", "xlabs.flux.model", "bad.flux.model",
   "xflux.layers"}

Modules == Preloaded \cup Importable

\* mod.DoubleStreamBlock: the class object a module exposes, "none" when
\* it has no such attribute.  The alias module re-exports the canonical
\* class object.
ClassOf(m) ==
  CASE m = CANONICAL          -> "Canon"
    [] m = "alias.flux.model" -> "Canon"
    [] m = "xlabs.flux.model" -> "Vendored"
    [] m = "bad.flux.model"   -> "Opaque"
    [] m = "xflux.layers"     -> "Declares"
    [] m = "bare.flux.model"  -> "Bare"
    [] OTHER                  -> "none"

Classes == {"Canon", "Vendored", "Declares", "Opaque", "Bare"}

\* DoubleStreamBlock.forward exists
HasForward(c) == c \in {"Canon", "Vendored", "Declares", "Opaque"}

\* inspect.signature(forward) succeeds on the class's own function
Introspectable(c) == c \in {"Canon", "Vendored", "Declares"}

ClassSig(c) ==
  CASE c = "Vendored" -> [has_var_kw |-> TRUE,  allowed_kwargs |-> {"img"}]
    [] c = "Declares" -> [has_var_kw |-> FALSE, allowed_kwargs |-> {"img", "attn_mask"}]
    [] OTHER          -> [has_var_kw |-> FALSE, allowed_kwargs |-> {"img"}]

\* The signature of patched_forward(self, *args, **kwargs) itself.
WrapperSig == [has_var_kw |-> TRUE, allowed_kwargs |-> {}]

\* "flux.model" in name
NameMatches(m) ==
  m \in {CANONICAL, "alias.flux.model", "xlabs.flux.model", "bad.flux.model",
         "bare.flux.model"}

NoOut == [by |-> "nobody", args |-> <<>>, kwargs |-> << >>]

NoOp ==
  [op |-> "none", mod |-> "-", val |-> "-", n |-> 0, filters |-> 0,
   logs |-> 0, kwargs |-> << >>, out |-> NoOut]

PatchInit ==
  /\ sys_modules = Preloaded
  /\ forward = [c \in Classes |-> <<>>]
  /\ meta_path = 0
  /\ LOGGED_ONCE = FALSE
  /\ last = NoOp

\* getattr(original_forward, PATCH_FLAG, False): every wrapper carries the
\* flag, the original function does not.
AlreadyPatched_never(stack) == FALSE

AlreadyPatched(stack) == Len(stack) > 0

\* _patch_module(mod) on the forwards fwd: what it returns ("True",
\* "False", or "raised" when inspect.signature raises) and the forwards
\* it leaves.
patch_module(fwd, m) ==
  LET c == ClassOf(m) IN
  IF c = "none" \/ ~HasForward(c) THEN [val |-> "False", fwd |-> fwd]
  ELSE IF AlreadyPatched(fwd[c]) THEN [val |-> "False", fwd |-> fwd]
  ELSE IF fwd[c] = <<>> /\ ~Introspectable(c) THEN [val |-> "raised", fwd |-> fwd]
  ELSE [val |-> "True",
        fwd |-> [fwd EXCEPT ![c] =
                   Append(@, IF @ = <<>> THEN ClassSig(c) ELSE WrapperSig)]]

\* The targeted patch of a loaded module.
PatchModule(m) ==
  /\ UNCHANGED NotPatch
  /\ m \in sys_modules
  /\ LET r == patch_module(forward, m) IN
     /\ forward' = r.fwd
     /\ last' = [NoOp EXCEPT !.op = "patch_module", !.mod = m, !.val = r.val]
  /\ UNCHANGED <<sys_modules, meta_path, LOGGED_ONCE>>

\* A loader that only executes the module.
exec_only(fwd, m) == fwd

\* _FluxImportHook's _exec_and_patch: the patch runs in a try, so a raise
\* leaves the forwards as they were.
exec_and_patch(fwd, m) == patch_module(fwd, m).fwd

\* Importing module m: with a hook on sys.meta_path, a matching name is
\* patched as soon as the module has executed.
AfterImport(fwd, m) ==
  IF meta_path > 0 /\ NameMatches(m) THEN exec_and_patch(fwd, m) ELSE fwd

\* The orders in which a set of modules can stand in sys.modules.
RECURSIVE Orders(_)
Orders(S) ==
  IF S = {} THEN { <<>> }
  ELSE UNION { { <<m>> \o o : o \in Orders(S \ {m}) } : m \in S }

\* A count that goes up at every module visited.
Counted_every_visit(val, patched) == patched + 1

\* if _patch_module(mod): patched += 1
Counted(val, patched) == IF val = "True" THEN patched + 1 ELSE patched

\* The loop of _apply_patch_all over the modules in order: a raise of
\* _patch_module ends it.
RECURSIVE ScanModules(_, _, _)
ScanModules(fwd, order, patched) ==
  IF order = <<>> THEN [val |-> "returned", fwd |-> fwd, n |-> patched]
  ELSE LET r == patch_module(fwd, Head(order)) IN
       IF r.val = "raised" THEN [val |-> "raised", fwd |-> fwd, n |-> patched]
       ELSE ScanModules(r.fwd, Tail(order), Counted(r.val, patched))

\* if "flux.model" not in name / if not hasattr(mod, "DoubleStreamBlock")
ScanCandidates(mods) == { m \in mods : NameMatches(m) /\ ClassOf(m) # "none" }

\* _apply_patch_all.  found says whether `import comfy.ldm.flux.model`
\* succeeds; a module it loads is the last of sys.modules.
ApplyPatchAll ==
  /\ UNCHANGED NotPatch
  /\ \E found \in (IF CANONICAL \in sys_modules THEN {TRUE} ELSE BOOLEAN) :
       LET fresh == found /\ CANONICAL \notin sys_modules
           mods == IF found THEN sys_modules \cup {CANONICAL} ELSE sys_modules
           fwd0 == IF fresh THEN AfterImport(forward, CANONICAL) ELSE forward
           r1 == IF found THEN patch_module(fwd0, CANONICAL)
                 ELSE [val |-> "raised", fwd |-> fwd0]
           n1 == Counted(r1.val, 0)
           older == ScanCandidates(mods) \ (IF fresh THEN {CANONICAL} ELSE {})
       IN  \E o \in Orders(older) :
             LET order == IF fresh THEN Append(o, CANONICAL) ELSE o
                 r2 == ScanModules(r1.fwd, order, n1)
             IN  /\ sys_modules' = mods
                 /\ forward' = r2.fwd
                 /\ last' = [NoOp EXCEPT !.op = "apply_patch_all", !.val = r2.val,
                                         !.n = r2.n]
                 /\ UNCHANGED <<meta_path, LOGGED_ONCE>>

\* _install_import_hook
InstallImportHook ==
  /\ UNCHANGED NotPatch
  /\ IF meta_path > 0
     THEN /\ last' = [NoOp EXCEPT !.op = "install_import_hook", !.val = "False"]
          /\ UNCHANGED meta_path
     ELSE /\ meta_path' = meta_path + 1
          /\ last' = [NoOp EXCEPT !.op = "install_import_hook", !.val = "True"]
  /\ UNCHANGED <<sys_modules, forward, LOGGED_ONCE>>

\* Some code of the process imports a module for the first time.
ImportModule(m) ==
  /\ UNCHANGED NotPatch
  /\ m \in Importable \ sys_modules
  /\ sys_modules' = sys_modules \cup {m}
  /\ forward' = AfterImport(forward, m)
  /\ last' = [NoOp EXCEPT !.op = "import", !.mod = m, !.val = "loaded"]
  /\ UNCHANGED <<meta_path, LOGGED_ONCE>>

\* A call of DoubleStreamBlock.forward goes through the wrappers, outermost
\* first; each filters what it passes on.
RECURSIVE ThroughWrappers(_, _)
ThroughWrappers(stack, kwargs) ==
  IF stack = <<>> THEN kwargs
  ELSE ThroughWrappers(SubSeq(stack, 1, Len(stack) - 1),
                       FilteredKwargs(stack[Len(stack)], kwargs))

\* The calls the model makes of a loaded block.
CallSamples ==
  { [k \in {"img", "mask"} |-> "v1"],
    [k \in {"img", "attn_mask", "transformer_options"} |-> "v2"] }

\* block.forward(x, **kwargs) on a loaded module's block.
CallForward(m, kwargs) ==
  /\ UNCHANGED NotPatch
  /\ m \in sys_modules
  /\ HasForward(ClassOf(m))
  /\ LET stack == forward[ClassOf(m)] IN
     /\ last' = [NoOp EXCEPT !.op = "call", !.mod = m,
                             !.filters = Len(stack),
                             !.logs = IF stack # <<>> /\ ~LOGGED_ONCE THEN 1 ELSE 0,
                             !.kwargs = kwargs,
                             !.out = original_forward(<<"x">>,
                                        ThroughWrappers(stack, kwargs))]
     /\ LOGGED_ONCE' = (LOGGED_ONCE \/ stack # <<>>)
  /\ UNCHANGED <<sys_modules, forward, meta_path>>

PatchNext ==
  \/ \E m \in Modules : PatchModule(m)
  \/ ApplyPatchAll
  \/ InstallImportHook
  \/ \E m \in Modules : ImportModule(m)
  \/ \E m \in Modules, kwargs \in CallSamples : CallForward(m, kwargs)

(***************************************************************************)
(* The wrapper on its own: a signature, positional arguments and keywords  *)
(* are drawn, and patched_forward is applied to them.                      *)
(***************************************************************************)
Signatures == [has_var_kw : BOOLEAN, allowed_kwargs : SUBSET Keys]

ArgLists == { <<>>, <<"x">>, <<"x", "y">> }

WrapperInit ==
  /\ w_sig \in Signatures
  /\ w_args \in ArgLists
  /\ w_kwargs \in KwargMaps
  /\ w_out = NoOut

\* The worker and patch specifications leave the wrapper's call fixed.
WrapperIdle ==
  /\ w_sig = [has_var_kw |-> FALSE, allowed_kwargs |-> {}]
  /\ w_args = <<>>
  /\ w_kwargs = << >>
  /\ w_out = NoOut

CallWrapper ==
  /\ UNCHANGED NotWrapper
  /\ w_out = NoOut
  /\ w_out' = patched_forward(w_sig, w_args, w_kwargs)
  /\ UNCHANGED <<w_sig, w_args, w_kwargs>>

(***************************************************************************)
(* Specifications: the worker, the patch module, the wrapper.              *)
(***************************************************************************)
(***************************************************************************)
(* The diff of _await_new_outputs on its own: every before-snapshot and    *)
(* every scan over two paths and three modification times.                 *)
(***************************************************************************)
DiffPaths == {"out/a.png", "out/b.png"}

MTimes == {100, 150, 200}

Snapshots == UNION { [S -> MTimes] : S \in SUBSET DiffPaths }

NotRun == { [path |-> "-", mtime |-> 0] }

DiffInit ==
  /\ d_before \in Snapshots
  /\ d_scan \in Snapshots
  /\ d_new = NotRun

\* The other specifications leave the diff fixed.
DiffIdle ==
  /\ d_before = EmptyMap
  /\ d_scan = EmptyMap
  /\ d_new = NotRun

\* all_images = _scan_outputs(); new_images = [...]
DiffOutputs ==
  /\ UNCHANGED NotDiff
  /\ d_new = NotRun
  /\ d_new' = NewImages(d_before, scan_outputs(d_scan))
  /\ UNCHANGED <<d_before, d_scan>>

(***************************************************************************)
(* sitecustomize.py: the module body, run once by every interpreter start. *)
(***************************************************************************)
CUSTOM_NODE_DIR == "/comfyui/custom_nodes"

PathEntries == {CUSTOM_NODE_DIR, "/usr/lib/python3", "/app"}

\* sys.path as the interpreter hands it over (PYTHONPATH, .pth files).
StartPaths == UNION { [1..n -> PathEntries] : n \in 0..MaxPathLen }

\* What importing the patch module can do: succeed, fail to find it, or
\* raise from its module body (_apply_patch_all).
ImportOutcomes == {"none", "ModuleNotFoundError", "ValueError"}

LoaderInit ==
  /\ l_pc = "paths"
  /\ sys_path \in StartPaths
  /\ dir_exists \in BOOLEAN
  /\ imports = 0
  /\ import_exc = "none"

\* The other specifications leave the loader fixed.
LoaderIdle ==
  /\ l_pc = "paths"
  /\ sys_path = << >>
  /\ dir_exists = FALSE
  /\ imports = 0
  /\ import_exc = "none"

OnPath(path, d) == \E i \in 1..Len(path) : path[i] = d

\* Lines 20-22: CUSTOM_NODE_DIR.exists() and str_path not in sys.path
MustInsert(path, exists) == exists /\ ~OnPath(path, CUSTOM_NODE_DIR)

\* Lines 19-26.
PrependCustomNodeDir ==
  /\ UNCHANGED NotLoader
  /\ l_pc = "paths"
  /\ l_pc' = "import"
  /\ sys_path' = IF MustInsert(sys_path, dir_exists)
                 THEN <<CUSTOM_NODE_DIR>> \o sys_path
                 ELSE sys_path
  /\ UNCHANGED <<dir_exists, imports, import_exc>>

\* A loader that only expects the module to be missing.
LoaderCatches_ImportError_only(exc) == exc = "ModuleNotFoundError"

\* except Exception: both are subclasses of Exception.
LoaderCatches(exc) == exc \in {"ModuleNotFoundError", "ValueError"}

\* Lines 28-32: the import inside try / except Exception.
ImportPatchModule ==
  /\ UNCHANGED NotLoader
  /\ l_pc = "import"
  /\ imports' = imports + 1
  /\ \E exc \in ImportOutcomes :
       /\ import_exc' = exc
       /\ l_pc' = IF exc = "none" \/ LoaderCatches(exc) THEN "done" ELSE "aborted"
  /\ UNCHANGED <<sys_path, dir_exists>>

(***************************************************************************)
(* Two generate invocations that share the inference server and the output *)
(* directories: each runs lines 554-603 of _handle_generate from the       *)
(* snapshot on, and the server executes the accepted submissions in any    *)
(* order, writing one PNG for each.                                        *)
(***************************************************************************)
Submissions == {"p1", "p2"}

RacePaths == {"out/a.png", "out/b.png"}

NoFiles == [p \in {} |-> [mtime |-> 0, prompt |-> "none"]]

RaceInit ==
  /\ r_pc = [s \in Submissions |-> "snapshot"]
  /\ r_before = [s \in Submissions |-> EmptyMap]
  /\ r_deadline = [s \in Submissions |-> 0]
  /\ r_result = [s \in Submissions |-> NoResult]
  /\ r_queue = {}
  /\ r_files = NoFiles
  /\ r_clock = 0

\* A scan that finds only the files of the invocation's own submission.
VisibleFiles_own_prompt(s, fs) ==
  [p \in { q \in DOMAIN fs : fs[q].prompt = s } |-> fs[p].mtime]

\* What _scan_outputs() finds for the invocation of submission s: it takes
\* no prompt_id and walks the shared directories, so every PNG there.
VisibleFiles(s, fs) == [p \in DOMAIN fs |-> fs[p].mtime]

\* before_images = _scan_outputs(); before_map = {...}
RaceSnapshot(s) ==
  /\ UNCHANGED NotRace
  /\ r_pc[s] = "snapshot"
  /\ r_pc' = [r_pc EXCEPT ![s] = "submit"]
  /\ r_before' = [r_before EXCEPT ![s] =
                    PathMap(scan_outputs(VisibleFiles(s, r_files)))]
  /\ UNCHANGED <<r_deadline, r_result, r_queue, r_files, r_clock>>

\* The try block around _comfy_post("/prompt") and the deadline of
\* _await_new_outputs: the server queues an accepted submission.
RaceSubmit(s) ==
  /\ UNCHANGED NotRace
  /\ r_pc[s] = "submit"
  /\ \E r \in Responses :
       IF r = "ok_json"
       THEN /\ r_pc' = [r_pc EXCEPT ![s] = "await"]
            /\ r_queue' = r_queue \cup {s}
            /\ \E wait_seconds \in WaitBudgets :
                 r_deadline' = [r_deadline EXCEPT ![s] = r_clock + wait_seconds]
            /\ UNCHANGED r_result
       ELSE /\ r_pc' = [r_pc EXCEPT ![s] = "done"]
            /\ r_result' = [r_result EXCEPT ![s] =
                 Returned(fail("generate failed", r),
                          IF r = "non2xx" THEN "non2xx" ELSE "exception")]
            /\ UNCHANGED <<r_queue, r_deadline>>
  /\ UNCHANGED <<r_before, r_files, r_clock>>

\* One iteration of the loop of _await_new_outputs in the invocation of
\* submission s, and the rest of _handle_generate once it returns.
RaceAwait(s) ==
  /\ UNCHANGED NotRace
  /\ r_pc[s] = "await"
  /\ LET all_images == scan_outputs(VisibleFiles(s, r_files))
         current_map == PathMap(all_images)
         new == NewImages(r_before[s], all_images)
     IN  IF new # {}
         THEN /\ r_pc' = [r_pc EXCEPT ![s] = "done"]
              /\ \E latest \in Latest(new) :
                   r_result' = [r_result EXCEPT ![s] =
                     generate_result(s, r_before[s], current_map, new, latest)]
              /\ UNCHANGED r_clock
         ELSE IF r_clock >= r_deadline[s]
         THEN /\ r_pc' = [r_pc EXCEPT ![s] = "done"]
              /\ r_result' = [r_result EXCEPT ![s] =
                   generate_result(s, r_before[s], current_map, {}, NoImage)]
              /\ UNCHANGED r_clock
         ELSE /\ r_clock < MaxClock
              /\ r_clock' = r_clock + 1
              /\ UNCHANGED <<r_pc, r_result>>
  /\ UNCHANGED <<r_before, r_deadline, r_queue, r_files>>

\* The inference server executes a queued submission and writes (or
\* rewrites) its PNG.
ServerExecutes(s) ==
  /\ UNCHANGED NotRace
  /\ s \in r_queue
  /\ r_queue' = r_queue \ {s}
  /\ \E p \in RacePaths :
       r_files' = [q \in DOMAIN r_files \cup {p} |->
                     IF q = p THEN [mtime |-> r_clock, prompt |-> s]
                     ELSE r_files[q]]
  /\ UNCHANGED <<r_pc, r_before, r_deadline, r_result, r_clock>>

RaceTick ==
  /\ UNCHANGED NotRace
  /\ r_clock < MaxClock
  /\ r_clock' = r_clock + 1
  /\ UNCHANGED <<r_pc, r_before, r_deadline, r_result, r_queue, r_files>>

RaceNext ==
  \/ \E s \in Submissions : RaceSnapshot(s)
  \/ \E s \in Submissions : RaceSubmit(s)
  \/ \E s \in Submissions : RaceAwait(s)
  \/ \E s \in Submissions : ServerExecutes(s)
  \/ RaceTick

Init ==
  WorkerInit /\ PatchInit /\ WrapperIdle /\ DiffIdle /\ LoaderIdle /\ RaceInit

Next == WorkerNext

Spec == Init /\ [][Next]_vars

WorkerIdle == WorkerInit /\ healthy = FALSE

\* The worker with its handler thread scheduled: a handler that can take its
\* next step takes it.  Invocations and the environment are under no
\* obligation.
HandlerFairness ==
  /\ WF_vars(StartComfyIfNeeded)
  /\ WF_vars(WaitForComfyReady)
  /\ WF_vars(Request)
  /\ WF_vars(Snapshot)
  /\ WF_vars(Submit)
  /\ WF_vars(AwaitNewOutputs)

\* The invocations that reach _ensure_comfy_ready: the ones that wait.
ComfyEvents == { e \in Events : EntersComfy(e) }

NextFair ==
  \/ \E e \in ComfyEvents : Invoke(e)
  \/ StartComfyIfNeeded
  \/ WaitForComfyReady
  \/ Request
  \/ Snapshot
  \/ Submit
  \/ AwaitNewOutputs
  \/ ServerUp
  \/ ServerDown
  \/ ProcessExits
  \/ OutputWritten
  \/ Tick

SpecFair == Init /\ [][NextFair]_vars /\ HandlerFairness

InitPatch ==
  WorkerIdle /\ PatchInit /\ WrapperIdle /\ DiffIdle /\ LoaderIdle /\ RaceInit

NextPatch == PatchNext

SpecPatch == InitPatch /\ [][NextPatch]_vars

InitWrapper ==
  WorkerIdle /\ PatchInit /\ WrapperInit /\ DiffIdle /\ LoaderIdle /\ RaceInit

NextWrapper == CallWrapper

SpecWrapper == InitWrapper /\ [][NextWrapper]_vars

InitDiff ==
  WorkerIdle /\ PatchInit /\ WrapperIdle /\ DiffInit /\ LoaderIdle /\ RaceInit

NextDiff == DiffOutputs

SpecDiff == InitDiff /\ [][NextDiff]_vars

InitLoader ==
  WorkerIdle /\ PatchInit /\ WrapperIdle /\ DiffIdle /\ LoaderInit /\ RaceInit

NextLoader == PrependCustomNodeDir \/ ImportPatchModule

SpecLoader == InitLoader /\ [][NextLoader]_vars

InitRace ==
  WorkerIdle /\ PatchInit /\ WrapperIdle /\ DiffIdle /\ LoaderIdle /\ RaceInit

NextRace == RaceNext

SpecRace == InitRace /\ [][NextRace]_vars

(***************************************************************************)
(* Claims about the worker.                                                *)
(***************************************************************************)
Finished == pc = "idle" /\ result.kind # "none"

\* The envelope has the field k.
Has(env, k) == k \in DOMAIN env

\* C1: handler never raises: whatever the job event (null, input missing
\* or no object, payload no object) and whatever exception an action
\* handler raises, the invocation ends in a returned envelope, a failure
\* envelope when an exception was raised, and never in an exception that
\* reaches the platform.
C1_HandlerNeverRaises ==
  /\ result.kind # "raised"
  /\ (result.kind = "returned" /\ result.why \in {"exception", "unreachable"})
       => (Has(result.env, "ok") /\ result.env.ok = FALSE)

\* C2: envelope invariant: every object handler returns has a boolean ok,
\* never both data and error, ok = TRUE exactly when data is there and
\* ok = FALSE exactly when error is there; the success path gives ok = TRUE,
\* and invalid input, an unreachable server and an internal exception give
\* ok = FALSE.
C2_EnvelopeInvariant ==
  result.kind = "returned" =>
    LET env == result.env IN
    /\ Has(env, "ok")
    /\ env.ok \in BOOLEAN
    /\ ~(Has(env, "data") /\ Has(env, "error"))
    /\ (env.ok = TRUE) <=> Has(env, "data")
    /\ (env.ok = FALSE) <=> Has(env, "error")
    /\ result.why = "success" => env.ok = TRUE
    /\ result.why \in {"invalid_input", "unreachable", "exception"} => env.ok = FALSE

\* An unreachable server has made a generate invocation fail.
C2_Witness ==
  /\ Finished
  /\ ActionOf(event) = "generate"
  /\ result.kind = "returned"
  /\ result.why = "unreachable"
  /\ result.env.ok = FALSE

\* C3: an action the dispatcher does not implement, a missing one
\* included, gives ok = FALSE with an error that names the action, and the
\* invocation spawns nothing, requests nothing, writes nothing and is over
\* at once.
C3_UnknownAction ==
  (result.kind # "none" /\ ~InputRaises(event)
     /\ ActionOf(event) \notin ImplementedActions) =>
    /\ pc = "idle"
    /\ result.kind = "returned"
    /\ Has(result.env, "ok") /\ result.env.ok = FALSE
    /\ Has(result.env, "error")
    /\ result.env.error.text = "unknown action"
    /\ result.env.error.detail = ActionOf(event)
    /\ fx = NoFx

C3_Witness ==
  /\ Finished
  /\ event.shape = "obj"
  /\ event.action = "does_not_exist"
  /\ result.kind = "returned"
  /\ result.env.ok = FALSE
  /\ result.env.error.detail = "does_not_exist"

\* C4: a generate whose graph was submitted and whose wait budget ran out
\* with no new or changed output returns ok = FALSE, with the before/after
\* output counts and a tail of the server's log.
C4_GenerateTimeoutFails ==
  (result.kind = "returned" /\ result.why = "timeout") =>
    LET env == result.env
        body == IF Has(env, "error") THEN env.error ELSE env.data
    IN  /\ env.ok = FALSE
        /\ Has(body, "wait_info")
        /\ Has(body, "log_tail")

\* C5: an upload whose target resolves outside the input directory is
\* rejected with a failure envelope, and no upload writes a file outside
\* the input directory.
C5_PathEscapeRejected ==
  /\ \A w \in fx.writes : IsInside(INPUT_DIR, w)
  /\ (Finished /\ result.kind = "returned" /\ ActionOf(event) = "upload_input_url"
        /\ PayloadOf(event).url # "missing"
        /\ ~IsInside(INPUT_DIR, Resolve(UploadDest(PayloadOf(event)))))
       => result.env.ok = FALSE

\* C10: ensure-ready spawns nothing while the health endpoint answers, with
\* or without a handle held; a process is spawned only when the endpoint
\* does not answer and no live handle is held.
C10_NoSpawnWhenHealthy ==
  [][ /\ (pc = "ensure_start" /\ healthy)
         => (spawned' = spawned /\ comfy_process' = comfy_process)
      /\ (spawned' # spawned) => (~healthy /\ ~HoldsLiveProcess)
    ]_vars


(***************************************************************************)
(* Claims about the patch module.                                          *)
(***************************************************************************)
Wrappers(c) == Len(forward[c])

\* C6: however often and by whatever route a module is patched, its
\* block's forward carries at most one wrapper, and exactly one once an
\* attempt reached an introspectable forward; an attempt on an unwrapped
\* forward returns True and wraps it, an attempt on a wrapped one returns
\* False and changes nothing; a call through the wrapper filters once and
\* reaches the original once.
C6_AttemptStep ==
  (last' # last /\ last'.op = "patch_module"
     /\ Introspectable(ClassOf(last'.mod))) =>
    LET c == ClassOf(last'.mod) IN
    IF Wrappers(c) = 0
    THEN last'.val = "True" /\ Len(forward'[c]) = 1
    ELSE last'.val = "False" /\ forward' = forward

C6_OneLayer ==
  /\ \A c \in Classes : Wrappers(c) <= 1
  /\ (last.op = "patch_module" /\ Introspectable(ClassOf(last.mod)))
       => Wrappers(ClassOf(last.mod)) = 1
  /\ (last.op = "import" /\ meta_path > 0 /\ NameMatches(last.mod)
        /\ Introspectable(ClassOf(last.mod)))
       => Wrappers(ClassOf(last.mod)) = 1
  /\ (last.op = "call" /\ Wrappers(ClassOf(last.mod)) > 0) =>
       /\ last.filters = 1
       /\ last.logs <= 1
       /\ last.out.by = "original_forward"
       /\ DOMAIN last.out.kwargs \subseteq DOMAIN last.kwargs

C6_IdempotentPatching == []C6_OneLayer /\ [][C6_AttemptStep]_vars

\* A second targeted patch of the canonical module has returned False.
C6_Witness ==
  /\ last.op = "patch_module"
  /\ last.mod = CANONICAL
  /\ last.val = "False"
  /\ Wrappers("Canon") = 1

\* C9: no patch attempt lets an exception out of the patch module: the
\* targeted patch, the bulk patch and the import hook end without raising.
C9_PatchNeverRaises == last.val # "raised"

(***************************************************************************)
(* Claims about the wrapper.                                               *)
(***************************************************************************)
Called == w_out # NoOut

\* The call reached the original with the keys `kept` of the incoming
\* keywords, each with its value, and with the positional arguments.
DelegatedExactly(kept) ==
  /\ w_out.by = "original_forward"
  /\ w_out.args = w_args
  /\ DOMAIN w_out.kwargs = kept
  /\ \A k \in kept : w_out.kwargs[k] = w_kwargs[k]

MaskKeys == {"attn_mask", "attention_mask"}

\* C7, as claimed: without **kwargs the original gets exactly the incoming
\* keywords it declares.
C7_KeepsEveryDeclaredKey ==
  (Called /\ ~w_sig.has_var_kw) =>
    DelegatedExactly(DOMAIN w_kwargs \cap w_sig.allowed_kwargs)

\* C7, amended: without **kwargs the original gets exactly the incoming
\* keywords it declares other than attn_mask and attention_mask, with their
\* values, the positional arguments as they came, and its result is the
\* wrapper's.
C7_KeepsDeclaredButMasks ==
  (Called /\ ~w_sig.has_var_kw) =>
    DelegatedExactly((DOMAIN w_kwargs \cap w_sig.allowed_kwargs) \ MaskKeys)

\* The spec's example with a declared attn_mask: {img, mask, attn_mask}
\* reaches a forward declaring {img, attn_mask} as {img}.
C7_Witness ==
  /\ Called
  /\ ~w_sig.has_var_kw
  /\ w_sig.allowed_kwargs = {"img", "attn_mask"}
  /\ DOMAIN w_kwargs = {"img", "mask", "attn_mask"}
  /\ w_args = <<"x">>
  /\ DOMAIN w_out.kwargs = {"img"}

\* C8, as claimed: with **kwargs, a call with attn_mask and
\* transformer_options reaches the original without those two keys and
\* with every other keyword.
C8_DropsOnlyTheTwo ==
  (Called /\ w_sig.has_var_kw
     /\ {"attn_mask", "transformer_options"} \subseteq DOMAIN w_kwargs) =>
    DelegatedExactly(DOMAIN w_kwargs \ {"attn_mask", "transformer_options"})

\* C8, amended: with **kwargs, a call with attn_mask and
\* transformer_options reaches the original without attn_mask,
\* attention_mask and transformer_options and with every other keyword.
C8_DropsTheDenyList ==
  (Called /\ w_sig.has_var_kw
     /\ {"attn_mask", "transformer_options"} \subseteq DOMAIN w_kwargs) =>
    DelegatedExactly(DOMAIN w_kwargs
                       \ {"attn_mask", "attention_mask", "transformer_options"})

C8_Witness ==
  /\ Called
  /\ w_sig.has_var_kw
  /\ DOMAIN w_kwargs = {"img", "mask", "attn_mask", "transformer_options"}
  /\ DOMAIN w_out.kwargs = {"img", "mask"}


(***************************************************************************)
(* Claims about the process supervisor.                                    *)
(***************************************************************************)
\* A step that is one iteration of the loop of _wait_for_comfy_ready.
ProbeStep == pc = "wait_ready" /\ fx'.probes = fx.probes + 1

\* The process this invocation spawned has exited.
SpawnedProcessDied ==
  fx.spawns > 0 /\ comfy_process # 0 /\ comfy_process \notin alive

\* C11: when the process spawned by this invocation has exited before the
\* health endpoint answered, the readiness wait sees the exit at its next
\* iteration and ends there with a failure envelope, instead of sleeping on
\* until the timeout; nothing is spawned again in the invocation.
C11_EarlyDeathEndsWait ==
  [][ (ProbeStep /\ SpawnedProcessDied /\ ~healthy) =>
        /\ pc' = "idle"
        /\ result'.kind = "returned"
        /\ result'.env.ok = FALSE
        /\ spawned' = spawned ]_vars

\* The clock of the model leaves the wait room to reach its timeout.
WaitHasRoom == started + ReadyTimeout < MaxClock

C12_WaitInv ==
  pc = "wait_ready" =>
    /\ fx.probes <= ReadyTimeout + 1
    /\ clock - started >= fx.probes

C12_ProbeStep ==
  ProbeStep =>
    IF healthy
    THEN pc' = AfterReady(ActionOf(event)) /\ result' = result /\ clock' = clock
    ELSE IF clock - started > ReadyTimeout
    THEN /\ pc' = "idle"
         /\ result'.kind = "returned"
         /\ result'.why = "unreachable"
         /\ result'.env.ok = FALSE
    ELSE pc' = "wait_ready" /\ clock' = clock + 1

Diffed == d_new # NotRun

\* C13: the images reported as new are exactly the descriptors of the scan
\* whose path is not in the before-snapshot or whose mtime is greater than
\* the before-snapshot's for that path: an empty before-snapshot reports
\* every file, a risen mtime is reported, equal snapshots report nothing.
C13_DiffExact ==
  Diffed =>
    /\ \A p \in DiffPaths, m \in MTimes :
         ([path |-> p, mtime |-> m] \in d_new) <=>
           /\ p \in DOMAIN d_scan
           /\ d_scan[p] = m
           /\ (p \notin DOMAIN d_before \/ m > d_before[p])
    /\ \A d \in d_new : d.path \in DiffPaths /\ d.mtime \in MTimes
    /\ (d_before = EmptyMap) => Cardinality(d_new) = Cardinality(DOMAIN d_scan)
    /\ (d_before = d_scan) => d_new = {}

\* The file whose mtime rose from 100 to 150 is the one reported.
C13_Witness ==
  /\ Diffed
  /\ d_before = [p \in {"out/a.png"} |-> 100]
  /\ d_scan = [p \in {"out/a.png"} |-> 150]
  /\ d_new = { [path |-> "out/a.png", mtime |-> 150] }

(***************************************************************************)
(* Claims about generate.                                                  *)
(***************************************************************************)
Requested(what) == \E i \in 1..Len(fx.http) : fx.http[i] = what

\* C14: a generate request whose job graph has a node without `inputs` is
\* never submitted to the inference server, and it ends in a failure
\* envelope whose message names the node.
C14_InvalidGraphRejected ==
  (ActionOf(event) = "generate" /\ ~InputRaises(event)
     /\ PayloadOf(event).workflow = "graph_node_7_without_inputs") =>
    /\ ~Requested("POST /prompt")
    /\ Finished =>
         /\ result.kind = "returned"
         /\ result.env.ok = FALSE
         /\ result.env.error.detail = "node 7"

\* The event lacks the field its action requires; a payload that is no
\* object has no field at all.
InvalidInput(e) ==
  /\ ~InputRaises(e)
  /\ LET f == IF e.shape = "obj" /\ e.payload = "obj" THEN e.fields ELSE NoFields
     IN  \/ ActionOf(e) = "generate" /\ f.workflow = "missing"
         \/ ActionOf(e) = "history" /\ f.prompt_id = "missing"
         \/ ActionOf(e) = "comfy_get" /\ f.path = "missing"
         \/ ActionOf(e) = "upload_input_url" /\ f.url = "missing"

C15_Rejected ==
  InvalidInput(event) =>
    /\ pc = "idle"
    /\ result.kind = "returned"
    /\ result.why = "invalid_input"
    /\ result.env.ok = FALSE
    /\ fx = NoFx

C15_HandleKept ==
  InvalidInput(event') =>
    /\ comfy_process' = comfy_process
    /\ spawned' = spawned

\* C15: an invocation whose required payload field is missing (generate
\* without workflow, history without prompt_id, comfy_get without path,
\* upload_input_url without url, or a payload that is no object) returns a
\* failure envelope at once: nothing spawned, no HTTP request, no directory
\* or file written, the process handle as it was.
C15_InvalidInputNoEffect == []C15_Rejected /\ [][C15_HandleKept]_vars

\* history with a payload that is a string, on a worker holding a process.
C15_Witness ==
  /\ Finished
  /\ ActionOf(event) = "history"
  /\ event.payload = "str"
  /\ result.why = "invalid_input"
  /\ comfy_process # 0
  /\ fx = NoFx

(***************************************************************************)
(* Claims about the HTTP facade and the dispatcher.                        *)
(***************************************************************************)
\* C16: an invocation whose request to the inference server was answered
\* with a status outside 2xx returns a failure envelope; none returns
\* ok = TRUE.
C16_Non2xxFails ==
  (result.kind = "returned" /\ result.why = "non2xx") => result.env.ok = FALSE

\* C17: action strings that differ only in letter case reach the same
\* handler with the same outcome: PING is answered as ping is, with pong.
C17_CaseNormalized ==
  (Finished /\ event.shape = "obj" /\ event.action = "PING") =>
    /\ result.kind = "returned"
    /\ result.env.ok = TRUE
    /\ result.env = ok([message |-> "pong"])

(***************************************************************************)
(* Claims about the bootstrap loader.                                      *)
(***************************************************************************)
Occurrences(path, d) == Cardinality({ i \in 1..Len(path) : path[i] = d })

C18_Startup ==
  /\ l_pc # "aborted"
  /\ imports <= 1
  /\ l_pc = "done" => imports = 1
  /\ import_exc # "none" => l_pc = "done"
  /\ l_pc \in {"paths", "import"} => imports = 0

C18_PathStep ==
  /\ sys_path' # sys_path =>
       /\ dir_exists
       /\ Occurrences(sys_path, "/comfyui/custom_nodes") = 0
       /\ sys_path' = <<"/comfyui/custom_nodes">> \o sys_path
  /\ (l_pc = "paths" /\ l_pc' # "paths" /\ dir_exists) =>
       sys_path'[1] = "/comfyui/custom_nodes" \/ sys_path' = sys_path
  /\ Occurrences(sys_path', "/comfyui/custom_nodes")
       <= IF Occurrences(sys_path, "/comfyui/custom_nodes") = 0
          THEN 1 ELSE Occurrences(sys_path, "/comfyui/custom_nodes")

\* C18: every interpreter start ends with the loader done, never aborted,
\* after exactly one attempt to import the patch module, whether or not the
\* custom-node directory exists and whatever the import raises; the loader
\* prepends the directory to sys.path only when it exists and is not on the
\* path yet, and never adds an occurrence to a path that has one.
C18_LoaderNeverAborts == []C18_Startup /\ [][C18_PathStep]_vars

\* A start without the directory, whose import failed, still finished.
C18_Witness ==
  /\ l_pc = "done"
  /\ ~dir_exists
  /\ imports = 1
  /\ import_exc = "ModuleNotFoundError"

(***************************************************************************)
(* Claims about the steps of generate.                                     *)
(***************************************************************************)
Generating == ~InputRaises(event) /\ ActionOf(event) = "generate"

C19_Order ==
  Generating =>
    /\ Len(fx.http) <= 1
    /\ pc # "idle" => result.kind = "none"
    /\ pc \in {"ensure_start", "wait_ready"} =>
         fx.scans = 0 /\ fx.http = << >>
    /\ pc = "snapshot" =>
         fx.probes >= 1 /\ fx.scans = 0 /\ fx.http = << >>
    /\ pc = "submit" =>
         fx.probes >= 1 /\ fx.scans = 1 /\ fx.http = << >>
    /\ pc = "await" =>
         fx.probes >= 1 /\ fx.scans >= 1 /\ fx.http = <<"POST /prompt">>
    /\ (Finished /\ result.why = "unreachable") =>
         fx.scans = 0 /\ fx.http = << >> /\ result.env.ok = FALSE
    /\ (Finished /\ result.why \in {"non2xx", "exception"}) =>
         fx.scans = 1 /\ fx.http = <<"POST /prompt">> /\ result.env.ok = FALSE
    /\ (Finished /\ result.why \in {"success", "timeout"}) =>
         fx.probes >= 1 /\ fx.scans >= 2 /\ fx.http = <<"POST /prompt">>

C19_Step ==
  (Generating /\ pc # "idle") =>
    /\ (fx'.scans # fx.scans /\ fx.scans = 0) => pc = "snapshot"
    /\ fx'.http # fx.http => (pc = "submit" /\ fx.scans = 1)
    /\ (fx'.scans # fx.scans /\ fx.scans > 0) =>
         (pc = "await" /\ fx.http = <<"POST /prompt">>)
    /\ result' # result => pc' = "idle"

\* C19: one generate invocation goes readiness, snapshot, submission,
\* polling, response, in that order: no scan and no request before a probe
\* succeeded, one scan before the one submission, polling only after a
\* submission that succeeded, the response as the last step; when readiness
\* or the submission fails there is no polling and the envelope is a
\* failure.
C19_StrictStepOrder == []C19_Order /\ [][C19_Step]_vars

\* A generate that found a new image after polling at least once.
C19_Witness ==
  /\ Generating
  /\ Finished
  /\ result.why = "success"
  /\ fx.probes >= 1
  /\ fx.scans >= 2
  /\ fx.http = <<"POST /prompt">>

\* A step that is one iteration of the loop of _await_new_outputs.
ScanStep == pc = "await" /\ fx'.scans = fx.scans + 1

\* What the scan of this step shows against the before-snapshot.
ShownNew ==
  { [path |-> p, mtime |-> files[p]] :
      p \in { q \in DOMAIN files :
                q \notin DOMAIN before_map \/ files[q] > before_map[q] } }

\* The invocation ends with these new images and the counts of this scan.
ReturnsWith(new) ==
  /\ pc' = "idle"
  /\ result'.kind = "returned"
  /\ result'.env.data.new_images = new
  /\ result'.env.data.wait_info.after_count = Cardinality(DOMAIN files)
  /\ result'.env.data.wait_info.before_count = Cardinality(DOMAIN before_map)

C20_ScanStep ==
  ScanStep =>
    IF ShownNew # {} THEN ReturnsWith(ShownNew)
    ELSE IF clock >= started THEN ReturnsWith({})
    ELSE pc' = "await" /\ result' = result /\ clock' = clock + 1

C20_Scanned ==
  (Generating /\ Finished /\ result.why \in {"success", "timeout"}) =>
    fx.scans >= 2

\* The clock of the model reaches the deadline of the wait.
AwaitHasRoom == started <= MaxClock

NoServerActions ==
  {"ping", "about", "debug_ip_paths", "list_outputs", "list_all_outputs",
   "dump_comfy_log"}

C21_Handle ==
  /\ alive \subseteq {comfy_process}
  /\ Cardinality(alive) <= 1
  /\ comfy_process = spawned
  /\ fx.spawns <= 1

C21_Step ==
  /\ spawned' # spawned =>
       /\ pc = "ensure_start"
       /\ comfy_process = 0 \/ comfy_process \notin alive
       /\ spawned' = spawned + 1
       /\ comfy_process' = spawned'
       /\ alive' = {spawned'}
  /\ comfy_process' # comfy_process => spawned' # spawned
  /\ (pc = "ensure_start" /\ comfy_process # 0 /\ comfy_process \in alive) =>
       (spawned' = spawned /\ comfy_process' = comfy_process)
  /\ (~InputRaises(event') /\ ActionOf(event') \in NoServerActions) =>
       (comfy_process' = comfy_process /\ spawned' = spawned)

\* C21: a subprocess is spawned only by _start_comfy_if_needed and only
\* when no handle is held or the held process has exited; a live held
\* process is reused; at most one spawned process is alive at any time and
\* the handle is the latest one spawned; ping, about, debug_ip_paths,
\* list_outputs, list_all_outputs and dump_comfy_log leave the handle alone.
C21_HandleLifecycle == []C21_Handle /\ [][C21_Step]_vars

\* The first process exited and a later invocation spawned the second.
C21_Witness ==
  /\ spawned = 2
  /\ comfy_process = 2
  /\ alive = {2}
  /\ pc = "wait_ready"

(***************************************************************************)
(* Claims about the import hook.                                           *)
(***************************************************************************)
\* The patch logic can wrap the block of class c: it has a forward that is
\* wrapped already or whose signature can be read.
Wrappable(c) == HasForward(c) /\ (Introspectable(c) \/ Wrappers(c) > 0)

C22_Hook ==
  /\ meta_path <= 1
  /\ last.op = "install_import_hook" => meta_path = 1
  /\ last.op = "import" => (last.val = "loaded" /\ last.mod \in sys_modules)

C22_InstallStep ==
  /\ meta_path' >= meta_path
  /\ meta_path' # meta_path => last'.op = "install_import_hook"
  /\ (last'.op = "install_import_hook" /\ last' # last) =>
       /\ meta_path' = 1
       /\ last'.val = (IF meta_path = 0 THEN "True" ELSE "False")
       /\ forward' = forward
       /\ sys_modules' = sys_modules

C22_ImportStep ==
  (last'.op = "import" /\ sys_modules' # sys_modules) =>
    LET m == last'.mod
        c == ClassOf(m)
    IN  /\ m \notin sys_modules
        /\ sys_modules' = sys_modules \cup {m}
        /\ last'.val = "loaded"
        /\ meta_path' = meta_path
        /\ IF meta_path > 0 /\ NameMatches(m) /\ Wrappable(c)
           THEN /\ Len(forward'[c]) = 1
                /\ \A d \in Classes \ {c} : forward'[d] = forward[d]
           ELSE forward' = forward

\* C22: however installations and imports interleave, the finder list holds
\* one hook once one was installed and a second install returns False and
\* changes nothing; a module with a matching name that is imported with the
\* hook installed leaves the import with its block's forward under exactly
\* one wrapper; when the patch logic raises inside the hook the import
\* still completes, with the forwards as they were; a module whose name
\* does not match is loaded with every forward untouched.
C22_ImportHook == []C22_Hook /\ [][C22_InstallStep /\ C22_ImportStep]_vars

\* The vendored copy was imported with the hook installed and came out of
\* the import wrapped.
C22_Witness ==
  /\ last.op = "import"
  /\ last.mod = "xlabs.flux.model"
  /\ meta_path = 1
  /\ Wrappers("Vendored") = 1

(***************************************************************************)
(* Claims about the bulk patch.                                            *)
(***************************************************************************)
\* The classes without a wrapper in fwd0 and with one in fwd1.
NewlyWrapped(fwd0, fwd1) ==
  { c \in Classes : fwd0[c] = <<>> /\ fwd1[c] # <<>> }

\* The classes the import hook wraps while the bulk patch imports the
\* canonical module for the first time.
WrappedByHook ==
  IF CANONICAL \notin sys_modules /\ CANONICAL \in sys_modules'
  THEN NewlyWrapped(forward, AfterImport(forward, CANONICAL))
  ELSE {}

BulkPatchReturns ==
  /\ last'.op = "apply_patch_all"
  /\ last'.val = "returned"
  /\ <<last, forward, sys_modules>>' # <<last, forward, sys_modules>>

C23_Step ==
  BulkPatchReturns =>
    /\ last'.n = Cardinality(NewlyWrapped(forward, forward') \ WrappedByHook)
    /\ \A c \in Classes : Len(forward'[c]) <= 1
    /\ \A c \in Classes : forward[c] # <<>> => forward'[c] = forward[c]
    /\ (last.op = "apply_patch_all" /\ last.val = "returned"
          /\ sys_modules' = sys_modules) =>
         (last'.n = 0 /\ forward' = forward)

\* C23: a bulk patch that returns, returns the number of block classes it
\* wrapped in that call: the canonical module, patched first and met again
\* in the scan, and modules sharing one class object count once, a class
\* that was wrapped before (or is wrapped by the import hook during the
\* call's own import) counts zero, and a bulk patch that directly follows
\* another with no module loaded in between returns 0 and changes nothing.
C23_BulkPatchCount == [][C23_Step]_vars

\* One call wrapped the canonical class, also met through its alias and in
\* the scan, and the vendored class, and returned 2.
C23_Witness ==
  /\ last.op = "apply_patch_all"
  /\ last.val = "returned"
  /\ last.n = 2
  /\ {CANONICAL, "alias.flux.model", "xlabs.flux.model"} \subseteq sys_modules
  /\ Wrappers("Canon") = 1
  /\ Wrappers("Vendored") = 1

(***************************************************************************)
(* Claims about the history handler.                                       *)
(***************************************************************************)
HistoryRequested ==
  /\ Finished
  /\ ~InputRaises(event)
  /\ ActionOf(event) = "history"
  /\ fx.http # <<>>

ParsedHistory == ok([prompt_id |-> "p1", history |-> "data", raw |-> "none"])

\* C24: a history invocation that reached the server asked GET
\* /history/{prompt_id} first; it went on to POST /history unless the GET
\* was answered 2xx with a JSON body, so an answer without the POST is the
\* parsed history of the GET; an unparsable body comes back as raw text in
\* an ok = TRUE envelope; a POST answered outside 2xx gives ok = FALSE.
C24_HistoryFallback ==
  HistoryRequested =>
    /\ fx.http[1] = "GET /history/id"
    /\ Len(fx.http) <= 2
    /\ Len(fx.http) = 2 => fx.http[2] = "POST /history"
    /\ ~Requested("POST /history") => result.env = ParsedHistory
    /\ (result.env.ok /\ result.env # ParsedHistory) =>
         (result.env.data.history = "None" /\ result.env.data.raw # "none")
    /\ result.why = "non2xx" => ~result.env.ok

(***************************************************************************)
(* Claims about two submissions in flight.                                 *)
(***************************************************************************)
\* The PNG at path p is new for the invocation of submission s: it was not
\* in that invocation's snapshot, or is newer than it was there.
NewSince(s, p) ==
  /\ p \in DOMAIN r_files
  /\ p \notin DOMAIN r_before[s] \/ r_files[p].mtime > r_before[s][p]

Descriptor(p) == [path |-> p, mtime |-> r_files[p].mtime]

Decides(s) == r_pc[s] = "await" /\ r_pc'[s] = "done"

C25_Step ==
  \A s \in Submissions :
    Decides(s) =>
      LET data == r_result'[s].env.data IN
      /\ r_result'[s].env.ok
      /\ data.prompt_id = s
      /\ data.new_images = { Descriptor(p) : p \in { q \in RacePaths : NewSince(s, q) } }
      /\ \A p \in RacePaths :
           (NewSince(s, p) /\ r_files[p].prompt # s) =>
             Descriptor(p) \in data.new_images
      /\ data.new_images # {} =>
           /\ data.latest_image \in data.new_images
           /\ \A d \in data.new_images : d.mtime <= data.latest_image.mtime

\* C25: the invocation that ends its wait reports, under its own
\* prompt_id, every PNG that is new or newer than in its before-snapshot,
\* whichever submission wrote it: a file written by the other submission
\* after the snapshot is among its new_images and can be its latest_image.
C25_AttributedWithoutCorrelation == [][C25_Step]_vars

\* An invocation has returned, as its latest new image, the file the other
\* submission wrote, while its own submission is still queued.
C25_Witness ==
  \E s \in Submissions, p \in RacePaths :
    /\ r_pc[s] = "done"
    /\ s \in r_queue
    /\ p \in DOMAIN r_files
    /\ r_files[p].prompt \in Submissions \ {s}
    /\ r_result[s].env.ok
    /\ r_result[s].env.data.prompt_id = s
    /\ r_result[s].env.data.latest_image = Descriptor(p)
    /\ r_result[s].env.data.new_images = {Descriptor(p)}

=============================================================================
